---------------------------- MODULE Spec2Model ----------------------------
(***************************************************************************)
(* Model of the LINE learning-report bot (src/app.py): the user store, the *)
(* webhook handlers, the broadcast fan-out, and the report pipeline        *)
(* generate_learning_message -> parse_learning_data -> create_body.        *)
(*                                                                         *)
(* A Python str is a sequence of code points.  A code point is written as  *)
(* a TLA+ string: a printable ASCII character is itself, "LF" is the line  *)
(* feed, and any other code point is "u" followed by its hexadecimal       *)
(* number ("u2776" is the ordinal glyph of section 1, "u2B50" the filled   *)
(* star).  A score or a time with one decimal is the integer number of     *)
(* tenths (85.0 is 850).                                                   *)
(***************************************************************************)
EXTENDS Integers, Sequences, FiniteSets, TLC

VARIABLES
    pc,          \* position of the request being served by the pipeline
    data,        \* the session dict handed to generate_learning_message
    reply,       \* what the Gemini call produces for this request
    message,     \* the text built by the composer or posted as "message"
    parsed,      \* parse_learning_data's result
    bubble,      \* create_learning_report_flex's result
    score,       \* argument of get_star_rating
    stars,       \* result of get_star_rating
    Users,       \* the Firestore collection 'Users'
    events,      \* the webhook events accepted, each handled on its own thread
    clock,       \* number of events accepted so far
    handled,     \* users whose event was recorded with the store working
    bc,          \* the broadcast run by unity_notify
    pushes       \* delivery attempts made by send_message_to_user

vars == <<pc, data, reply, message, parsed, bubble, score, stars,
          Users, events, clock, handled, bc, pushes>>

pipeVars == <<pc, data, reply, message, parsed, bubble>>
starVars == <<score, stars>>
svcVars == <<Users, events, clock, handled, bc, pushes>>

(***************************************************************************)
(* The string literals of src/app.py.                                      *)
(***************************************************************************)
REPORT_HEADER == <<"u1F393", " ", "u5B78", "u7FD2", "u5831", "u544A", "u51FA", "u7210", "u5566", "uFF01", "LF", "LF">>

SECTION_1 == <<"u2776">>

TITLE_ATTITUDE == <<"u5B78", "u7FD2", "u614B", "u5EA6">>

SECTION_2 == <<"u2777">>

TITLE_EFFECTIVENESS == <<"u5B78", "u7FD2", "u6210", "u6548">>

SECTION_3 == <<"u2778">>

TITLE_CONCENTRATION == <<"u5B78", "u7FD2", "u5C08", "u5FC3", "u5EA6">>

SCORE_SUFFIX == <<"u5206", ")", "LF">>

ATTITUDE_HIGH == <<"u1F31F", " ", "u8D85", "u68D2", "uFF01", "u4F60", "u7684", "u5C08", "u6CE8", "u529B", "u50CF", "u96F7", "u5C04", "u4E00", "u6A23", "u96C6", "u4E2D", "uFF01", "LF">>

ATTITUDE_MID == <<"u1F44D", " ", "u4E0D", "u932F", "u5594", "uFF01", "u4FDD", "u6301", "u9019", "u500B", "u7BC0", "u594F", "u7E7C", "u7E8C", "u52A0", "u6CB9", "uFF01", "LF">>

ATTITUDE_LOW == <<"u1F914", " ", "u4F3C", "u4E4E", "u6709", "u9EDE", "u5206", "u5FC3", "u5462", "uFF0C", "u8A66", "u8457", "u627E", "u500B", "u66F4", "u5B89", "u975C", "u7684", "u74B0", "u5883", "u5427", "uFF01", "LF">>

TOTAL_TIME_LABEL == <<"u23F0", " ", "u7E3D", "u5B78", "u7FD2", "u6642", "u9593", "uFF1A">>

MINUTES_SUFFIX == <<"u5206", "u9418", "LF", "LF">>

EFFECT_TOP == <<"u1F3C6", " ", "u592A", "u53B2", "u5BB3", "u4E86", "uFF01", "u4F60", "u662F", "u5B78", "u9738", "u672C", "u9738", "uFF01", "LF">>

EFFECT_GOOD == <<"u2728", " ", "u8868", "u73FE", "u5F88", "u597D", "uFF01", "u518D", "u63A5", "u518D", "u53B2", "u5C31", "u80FD", "u66F4", "u4E0A", "u4E00", "u5C64", "u6A13", "uFF01", "LF">>

EFFECT_FAIR == <<"u1F4A1", " ", "u9084", "u6709", "u9032", "u6B65", "u7A7A", "u9593", "uFF0C", "u5EFA", "u8B70", "u91CD", "u65B0", "u8907", "u7FD2", "u4E00", "u4E0B", "u91CD", "u9EDE", "u5167", "u5BB9", "uFF01", "LF">>

EFFECT_LOW == <<"u1F4DA", " ", "u5225", "u7070", "u5FC3", "uFF01", "u5B78", "u7FD2", "u662F", "u500B", "u904E", "u7A0B", "uFF0C", "u5EFA", "u8B70", "u5148", "u56DE", "u53BB", "u770B", "u770B", "P", "D", "F", "u5167", "u5BB9", "uFF01", "LF">>

CORRECT_LABEL == <<"u2705", " ", "u7B54", "u5C0D", "uFF1A">>

WRONG_LABEL == <<"u984C", "LF", "u274C", " ", "u7B54", "u932F", "uFF1A">>

QUESTIONS_SUFFIX == <<"u984C", "LF">>

UNANSWERED_LABEL == <<"u23F8", "uFE0F", " ", "u672A", "u4F5C", "u7B54", "uFF1A">>

SPEED_FAST == <<"u26A1", " ", "u53CD", "u61C9", "u795E", "u901F", "uFF01", "u4F46", "u8A18", "u5F97", "u8981", "u4ED4", "u7D30", "u601D", "u8003", "u5594", "uFF01", "LF">>

SPEED_STEADY == <<"u23F1", "uFE0F", " ", "u601D", "u8003", "u901F", "u5EA6", "u525B", "u597D", "uFF0C", "u5F88", "u7A69", "u5065", "u7684", "u5B78", "u7FD2", "u7BC0", "u594F", "uFF01", "LF">>

SPEED_SLOW == <<"u1F40C", " ", "u6162", "u5DE5", "u51FA", "u7D30", "u6D3B", "uFF0C", "u4F46", "u53EF", "u4EE5", "u8A66", "u8457", "u63D0", "u9AD8", "u4E00", "u9EDE", "u6548", "u7387", "uFF01", "LF">>

AVG_TIME_LABEL == <<"u1F550", " ", "u5E73", "u5747", "u7B54", "u984C", "u6642", "u9593", "uFF1A">>

SECONDS_SUFFIX == <<"u79D2", "LF", "LF">>

ADVICE_HEADER == <<"u1F4AD", " ", "A", "I", "u5C0F", "u8001", "u5E2B", "u7684", "u8CBC", "u5FC3", "u5EFA", "u8B70", "uFF1A", "LF">>

TIP_TIME == <<"u23F0", " ", "u6709", "u4E0D", "u5C11", "u984C", "u76EE", "u9084", "u6C92", "u5B8C", "u6210", "uFF0C", "u5EFA", "u8B70", "u5408", "u7406", "u5B89", "u6392", "u6642", "u9593", "u5594", "uFF01", "LF">>

TIP_FOCUS == <<"u1F3AF", " ", "u5EFA", "u8B70", "u5148", "u63D0", "u5347", "u5C08", "u6CE8", "u529B", "uFF0C", "u53EF", "u4EE5", "u8A66", "u8A66", "u756A", "u8304", "u9418", "u5B78", "u7FD2", "u6CD5", "uFF01", "LF">>

TIP_REVIEW == <<"u1F4D6", " ", "u591A", "u82B1", "u9EDE", "u6642", "u9593", "u5728", "P", "D", "F", "u95B1", "u8B80", "u4E0A", "uFF0C", "u57FA", "u790E", "u6253", "u7A69", "u5F88", "u91CD", "u8981", "uFF01", "LF">>

TIP_SPEED == <<"u26A1", " ", "u53EF", "u4EE5", "u591A", "u505A", "u7DF4", "u7FD2", "u984C", "u4F86", "u63D0", "u5347", "u7B54", "u984C", "u901F", "u5EA6", "u5594", "uFF01", "LF">>

TIP_GENERIC == <<"u1F308", " ", "u4F60", "u7684", "u5B78", "u7FD2", "u72C0", "u614B", "u5F88", "u68D2", "uFF01", "u7E7C", "u7E8C", "u4FDD", "u6301", "u9019", "u500B", "u7BC0", "u594F", "uFF01", "LF">>

MOTIVATION == <<"LF", "u1F680", " ", "u52A0", "u6CB9", "uFF01", "u6BCF", "u4E00", "u6B21", "u5B78", "u7FD2", "u90FD", "u8B93", "u4F60", "u66F4", "u63A5", "u8FD1", "u76EE", "u6A19", "uFF01">>

AI_ADVICE_PREFIX == <<"LF", "LF", "u1F916", " ", "A", "I", "u5EFA", "u8B70", "uFF1A">>

AI_ADVICE_MARKER == <<"u1F916", " ", "A", "I", "u5EFA", "u8B70", "uFF1A">>

ROCKET == <<"u1F680">>

STAT_ALARM == <<"u23F0">>

STAT_CHECK == <<"u2705">>

STAT_CROSS == <<"u274C">>

STAT_PAUSE == <<"u23F8", "uFE0F">>

STAT_CLOCK == <<"u1F550">>

FILLED_STAR == <<"u2B50">>

EMPTY_STAR == <<"u2606">>

KEYWORD_REPORT == <<"u1F393", " ", "u5B78", "u7FD2", "u5831", "u544A">>

KEYWORD_ATTITUDE == <<"u5B78", "u7FD2", "u614B", "u5EA6">>

KEYWORD_EFFECTIVENESS == <<"u5B78", "u7FD2", "u6210", "u6548">>

KEYWORD_CONCENTRATION == <<"u5B78", "u7FD2", "u5C08", "u5FC3", "u5EA6">>

DEFAULT_MESSAGE == <<"u904A", "u6232", "u958B", "u59CB", "u5566", "uFF01">>

FALLBACK_ADVICE == <<"u7E7C", "u7E8C", "u4FDD", "u6301", "u5B78", "u7FD2", "u71B1", "u5FF1", "uFF01">>

ERROR_WORD == <<"u932F", "u8AA4">>

ERROR_PHRASE == <<"u767C", "u751F", "u932F", "u8AA4">>

(***************************************************************************)
(* Python str operations.                                                  *)
(***************************************************************************)
LF == "LF"

\* str.isspace for the code points that occur
IsSpace(c) == c \in {" ", "LF", "TAB", "CR"}

\* s.startswith(p)
StartsWith(s, p) ==
    /\ Len(s) >= Len(p)
    /\ \A i \in 1..Len(p) : s[i] = p[i]

\* s[i:].startswith(p), i counted from 1
MatchAt(s, p, i) ==
    /\ i + Len(p) - 1 <= Len(s)
    /\ \A k \in 1..Len(p) : s[i + k - 1] = p[k]

\* p in s
Contains(s, p) == \E i \in 1..(Len(s) - Len(p) + 1) : MatchAt(s, p, i)

RECURSIVE FirstNonSpace(_, _)
FirstNonSpace(s, i) ==
    IF i > Len(s) \/ ~IsSpace(s[i]) THEN i ELSE FirstNonSpace(s, i + 1)

RECURSIVE LastNonSpace(_, _)
LastNonSpace(s, i) ==
    IF i < 1 \/ ~IsSpace(s[i]) THEN i ELSE LastNonSpace(s, i - 1)

\* s.strip()
strip(s) == SubSeq(s, FirstNonSpace(s, 1), LastNonSpace(s, Len(s)))

RECURSIVE FindChar(_, _, _)
\* first index >= i holding c, Len(s) + 1 when there is none
FindChar(s, c, i) ==
    IF i > Len(s) \/ s[i] = c THEN i ELSE FindChar(s, c, i + 1)

RECURSIVE SplitFrom(_, _)
SplitFrom(s, i) ==
    LET e == FindChar(s, LF, i)
    IN  IF e > Len(s) THEN <<SubSeq(s, i, Len(s))>>
        ELSE <<SubSeq(s, i, e - 1)>> \o SplitFrom(s, e + 1)

\* s.split('\n')
split(s) == SplitFrom(s, 1)

RECURSIVE ReplaceFrom(_, _, _)
ReplaceFrom(s, old, i) ==
    IF i > Len(s) THEN <<>>
    ELSE IF MatchAt(s, old, i) THEN ReplaceFrom(s, old, i + Len(old))
    ELSE <<s[i]>> \o ReplaceFrom(s, old, i + 1)

\* s.replace(old, ''), old non-empty
replace(s, old) == ReplaceFrom(s, old, 1)

\* c * n
Repeat(c, n) == [i \in 1..n |-> c]

Digit(d) == CASE d = 0 -> "0" [] d = 1 -> "1" [] d = 2 -> "2" [] d = 3 -> "3"
              [] d = 4 -> "4" [] d = 5 -> "5" [] d = 6 -> "6" [] d = 7 -> "7"
              [] d = 8 -> "8" [] d = 9 -> "9"

RECURSIVE FormatInt(_)
\* f"{n}" of an int n >= 0
FormatInt(n) == IF n < 10 THEN <<Digit(n)>>
                ELSE FormatInt(n \div 10) \o <<Digit(n % 10)>>

\* f"{x:.1f}" of a float x >= 0 that holds x10 tenths
Format1f(x10) == FormatInt(x10 \div 10) \o <<".">> \o <<Digit(x10 % 10)>>

\* the integer nearest to n / d, a tie going to the even one: Python's round()
\* of a quotient that the float holds exactly
RoundHalfEven(n, d) ==
    LET q == n \div d
        r == n % d
    IN  IF 2 * r < d THEN q
        ELSE IF 2 * r > d THEN q + 1
        ELSE IF q % 2 = 0 THEN q ELSE q + 1

max(a, b) == IF a >= b THEN a ELSE b
min(a, b) == IF a <= b THEN a ELSE b

(***************************************************************************)
(* AIAdviceService: the Gemini call is an external collaborator; reply is  *)
(* what it produces: [kind |-> "text", text |-> ...] for response.text,    *)
(* kind "empty" for no response, kind "raise" for an exception.            *)
(***************************************************************************)
generate_gemini_response(r) ==
    IF r.kind = "text" /\ r.text # <<>> THEN strip(r.text) ELSE FALLBACK_ADVICE

get_ai_advice(r) ==
    LET ai_reply == generate_gemini_response(r)
    IN  IF Contains(ai_reply, ERROR_WORD) \/ Contains(ai_reply, ERROR_PHRASE)
        THEN FALLBACK_ADVICE
        ELSE strip(ai_reply)

(***************************************************************************)
(* LearningReportGenerator.                                                *)
(* A session dict is a record; totalQuestions is [kind |-> "callable"]     *)
(* (the lambda of generate_fake_data), [kind |-> "int", val |-> n] (a      *)
(* number in the posted JSON) or [kind |-> "absent"] (no such key).        *)
(***************************************************************************)
TotalQuestionsLambda(d) == d.correctCount + d.wrongCount + d.unansweredCount

\* lines 168-169: the callable is replaced by its value
ResolveTotalQuestions(d) ==
    IF d.totalQuestions.kind = "callable"
    THEN [d EXCEPT !.totalQuestions = [kind |-> "int", val |-> TotalQuestionsLambda(d)]]
    ELSE d

get_star_rating(s10) ==
    LET filled_stars == max(1, min(5, RoundHalfEven(s10, 200)))
        empty_stars == 5 - filled_stars
    IN  Repeat(FILLED_STAR[1], filled_stars) \o Repeat(EMPTY_STAR[1], empty_stars)

SectionHeader(number, title, s10) ==
    number \o title \o get_star_rating(s10) \o <<" ", "(">> \o Format1f(s10) \o SCORE_SUFFIX

AttitudeRemark(d) ==
    IF d.attitudeScore >= 800 THEN ATTITUDE_HIGH
    ELSE IF d.attitudeScore >= 600 THEN ATTITUDE_MID
    ELSE ATTITUDE_LOW

EffectivenessRemark(d) ==
    IF d.effectivenessScore >= 900 THEN EFFECT_TOP
    ELSE IF d.effectivenessScore >= 700 THEN EFFECT_GOOD
    ELSE IF d.effectivenessScore >= 500 THEN EFFECT_FAIR
    ELSE EFFECT_LOW

SpeedRemark(d) ==
    IF d.avgAnswerTime <= 100 THEN SPEED_FAST
    ELSE IF d.avgAnswerTime <= 300 THEN SPEED_STEADY
    ELSE SPEED_SLOW

\* total_time / 60 with one decimal; the sessions drawn keep the quotient off
\* the ties that the float does not hold exactly
FormatMinutes(t10) == Format1f(RoundHalfEven(t10, 60))

UnansweredLine(d) ==
    IF d.unansweredCount > 0
    THEN UNANSWERED_LABEL \o FormatInt(d.unansweredCount) \o QUESTIONS_SUFFIX
    ELSE <<>>

\* a composer that tests the scores before the unanswered share
PersonalAdvice_ScoresFirst(d) ==
    IF d.attitudeScore < 600 /\ d.effectivenessScore < 700 THEN TIP_FOCUS
    ELSE IF 10 * d.unansweredCount > 3 * d.totalQuestions.val THEN TIP_TIME
    ELSE IF d.effectivenessScore < 700 THEN TIP_REVIEW
    ELSE IF d.avgAnswerTime > 300 THEN TIP_SPEED
    ELSE TIP_GENERIC

\* lines 230-239; unanswered_count > total_questions * 0.3 in tenths
PersonalAdvice(d) ==
    IF 10 * d.unansweredCount > 3 * d.totalQuestions.val THEN TIP_TIME
    ELSE IF d.attitudeScore < 600 /\ d.effectivenessScore < 700 THEN TIP_FOCUS
    ELSE IF d.effectivenessScore < 700 THEN TIP_REVIEW
    ELSE IF d.avgAnswerTime > 300 THEN TIP_SPEED
    ELSE TIP_GENERIC

\* lines 186-246, for a dict d whose totalQuestions is a number
ComposeMessage(d, r) ==
    REPORT_HEADER
    \o SectionHeader(SECTION_1, TITLE_ATTITUDE, d.attitudeScore)
    \o AttitudeRemark(d)
    \o TOTAL_TIME_LABEL \o FormatMinutes(d.totalTime) \o MINUTES_SUFFIX
    \o SectionHeader(SECTION_2, TITLE_EFFECTIVENESS, d.effectivenessScore)
    \o EffectivenessRemark(d)
    \o CORRECT_LABEL \o FormatInt(d.correctCount)
    \o WRONG_LABEL \o FormatInt(d.wrongCount) \o QUESTIONS_SUFFIX
    \o UnansweredLine(d)
    \o <<LF>>
    \o SectionHeader(SECTION_3, TITLE_CONCENTRATION, d.concentrationScore)
    \o SpeedRemark(d)
    \o AVG_TIME_LABEL \o Format1f(d.avgAnswerTime) \o SECONDS_SUFFIX
    \o ADVICE_HEADER
    \o PersonalAdvice(d)
    \o MOTIVATION
    \o AI_ADVICE_PREFIX \o get_ai_advice(r)

\* generate_learning_message: the dict as the call leaves it and the text
\* returned; a dict without the key totalQuestions raises KeyError (line 168)
generate_learning_message(d, r) ==
    IF d.totalQuestions.kind = "absent"
    THEN [raised |-> TRUE, data |-> d, message |-> <<>>]
    ELSE LET dd == ResolveTotalQuestions(d)
         IN  [raised |-> FALSE, data |-> dd, message |-> ComposeMessage(dd, r)]

(***************************************************************************)
(* parse_learning_data.                                                    *)
(***************************************************************************)
IsStar(c) == c \in {FILLED_STAR[1], EMPTY_STAR[1]}

RECURSIVE RunEnd(_, _, _)
\* last index of the run of star (want) or non-star (~want) code points that
\* starts at i; i - 1 when the run is empty
RunEnd(s, i, want) ==
    IF i > Len(s) \/ (IsStar(s[i]) # want) THEN i - 1 ELSE RunEnd(s, i + 1, want)

IsSectionLine(line) ==
    \/ StartsWith(line, SECTION_1)
    \/ StartsWith(line, SECTION_2)
    \/ StartsWith(line, SECTION_3)

\* re.match(r'(❶|❷|❸)([^⭐☆]+)', line): <<>> for None, else <<group 1, group 2>>
section_match(line) ==
    IF IsSectionLine(line) /\ RunEnd(line, 2, FALSE) >= 2
    THEN <<SubSeq(line, 1, 1), SubSeq(line, 2, RunEnd(line, 2, FALSE))>>
    ELSE <<>>

\* re.search(r'([⭐☆]+)', line): <<>> for None, else <<group 1>>
stars_match(line) ==
    LET at == {i \in 1..Len(line) : IsStar(line[i])}
    IN  IF at = {} THEN <<>>
        ELSE LET b == CHOOSE i \in at : \A j \in at : i <= j
             IN  <<SubSeq(line, b, RunEnd(line, b, TRUE))>>

\* re.search(r'\(([^)]+)\)', line): <<>> for None, else <<group 1>>
score_match(line) ==
    LET at == {i \in 1..Len(line) :
                 /\ line[i] = "("
                 /\ FindChar(line, ")", i + 1) <= Len(line)
                 /\ FindChar(line, ")", i + 1) >= i + 2}
    IN  IF at = {} THEN <<>>
        ELSE LET b == CHOOSE i \in at : \A j \in at : i <= j
             IN  <<SubSeq(line, b + 1, FindChar(line, ")", b + 1) - 1)>>

\* lines 380-387
NewSection(line) ==
    [number  |-> IF section_match(line) # <<>> THEN section_match(line)[1] ELSE <<>>,
     title   |-> IF section_match(line) # <<>> THEN strip(section_match(line)[2]) ELSE line,
     stars   |-> IF stars_match(line) # <<>> THEN stars_match(line)[1] ELSE <<>>,
     score   |-> IF score_match(line) # <<>> THEN score_match(line)[1] ELSE <<>>,
     content |-> <<>>,
     stats   |-> <<>>]

\* a stat test that forgets the pause glyph
IsStatLine_NoPause(line) ==
    \/ StartsWith(line, STAT_ALARM)
    \/ StartsWith(line, STAT_CHECK)
    \/ StartsWith(line, STAT_CROSS)
    \/ StartsWith(line, STAT_CLOCK)

IsStatLine(line) ==
    \/ StartsWith(line, STAT_ALARM)
    \/ StartsWith(line, STAT_CHECK)
    \/ StartsWith(line, STAT_CROSS)
    \/ StartsWith(line, STAT_PAUSE)
    \/ StartsWith(line, STAT_CLOCK)

\* The loop state: the result dict and current_section, <<>> standing for None
\* (a section dict is never falsy: it always has six keys).
ParseInit ==
    [sections |-> <<>>, ai_advice |-> <<>>, motivation |-> <<>>, current |-> <<>>]

FlushCurrent(st) ==
    IF st.current # <<>> THEN Append(st.sections, st.current[1]) ELSE st.sections

\* a parser that takes the advice line only while a section is open
ParseLine_AdviceNeedsSection(st, raw) ==
    LET line == strip(raw)
    IN  IF line = <<>> THEN st
        ELSE IF IsSectionLine(line)
        THEN [st EXCEPT !.sections = FlushCurrent(st), !.current = <<NewSection(line)>>]
        ELSE IF st.current # <<>> /\ StartsWith(line, AI_ADVICE_MARKER)
        THEN [st EXCEPT !.ai_advice = strip(replace(line, AI_ADVICE_MARKER))]
        ELSE IF StartsWith(line, ROCKET)
        THEN [st EXCEPT !.motivation = line]
        ELSE IF st.current # <<>> /\ IsStatLine(line)
        THEN [st EXCEPT !.current[1].stats = Append(@, line)]
        ELSE IF st.current # <<>>
        THEN [st EXCEPT !.current[1].content = Append(@, line)]
        ELSE st

\* one iteration of the loop of lines 364-401
ParseLine(st, raw) ==
    LET line == strip(raw)
    IN  IF line = <<>> THEN st
        ELSE IF IsSectionLine(line)
        THEN [st EXCEPT !.sections = FlushCurrent(st), !.current = <<NewSection(line)>>]
        ELSE IF StartsWith(line, AI_ADVICE_MARKER)
        THEN [st EXCEPT !.ai_advice = strip(replace(line, AI_ADVICE_MARKER))]
        ELSE IF StartsWith(line, ROCKET)
        THEN [st EXCEPT !.motivation = line]
        ELSE IF st.current # <<>> /\ IsStatLine(line)
        THEN [st EXCEPT !.current[1].stats = Append(@, line)]
        ELSE IF st.current # <<>>
        THEN [st EXCEPT !.current[1].content = Append(@, line)]
        ELSE st

RECURSIVE ParseLoop(_, _, _)
ParseLoop(st, lines, i) ==
    IF i > Len(lines) THEN st ELSE ParseLoop(ParseLine(st, lines[i]), lines, i + 1)

\* a parser that forgets the section still open at end of input
parse_learning_data_NoFinalFlush(lines) ==
    LET st == ParseLoop(ParseInit, lines, 1)
    IN  [sections |-> st.sections, ai_advice |-> st.ai_advice,
         motivation |-> st.motivation]

parse_learning_data(lines) ==
    LET st == ParseLoop(ParseInit, lines, 1)
    IN  [sections |-> FlushCurrent(st), ai_advice |-> st.ai_advice,
         motivation |-> st.motivation]

(***************************************************************************)
(* The card tree.  A Flex component is a record whose field type names the *)
(* SDK class; the keyword arguments given in the source are its fields.    *)
(***************************************************************************)
FlexSeparator(margin) == [type |-> "separator", margin |-> margin]

create_header ==
    [type |-> "box", layout |-> "vertical", backgroundColor |-> "#667eea",
     paddingAll |-> "20px",
     contents |-> <<
        [type |-> "box", layout |-> "horizontal",
         contents |-> <<
            [type |-> "text", text |-> <<"u1F4CA">>, size |-> "xxl",
             color |-> "#FFFFFF", flex |-> 1],
            [type |-> "box", layout |-> "vertical", flex |-> 4,
             contents |-> <<
                [type |-> "text",
                 text |-> <<"u5B78", "u7FD2", "u6210", "u679C", "u5831", "u544A">>,
                 weight |-> "bold", size |-> "xl", color |-> "#FFFFFF"],
                [type |-> "text", text |-> <<"L", "e", "a", "r", "n", "i", "n", "g", " ", "R", "e", "p", "o", "r", "t">>,
                 size |-> "sm", color |-> "#E8EAFF", margin |-> "xs"] >>] >>] >>]

create_ai_advice_box(ai_advice) ==
    [type |-> "box", layout |-> "vertical", backgroundColor |-> "#1e293b",
     cornerRadius |-> "lg", paddingAll |-> "20px",
     contents |-> <<
        [type |-> "box", layout |-> "horizontal",
         contents |-> <<
            [type |-> "text", text |-> <<"u1F916">>, size |-> "lg", color |-> "#FFFFFF"],
            [type |-> "box", layout |-> "vertical", flex |-> 5, margin |-> "sm",
             contents |-> <<
                [type |-> "text", text |-> <<"A", "I", " ", "u5C08", "u5C6C", "u5EFA", "u8B70">>, weight |-> "bold",
                 size |-> "md", color |-> "#FFFFFF"],
                [type |-> "text", text |-> ai_advice, size |-> "sm",
                 color |-> "#cbd5e1", margin |-> "xs", wrap |-> TRUE] >>] >>] >>]

\* lines 517-521
colors == <<
    [bg |-> "#4ade80", light |-> "#dcfce7", text |-> "#166534"],
    [bg |-> "#fbbf24", light |-> "#fef3c7", text |-> "#92400e"],
    [bg |-> "#f87171", light |-> "#fee2e2", text |-> "#991b1b"] >>

\* a palette lookup that does not wrap around
SectionColor_NoWrap(index) == colors[min(index, 2) + 1]

\* colors[index % 3], index counted from 0
SectionColor(index) == colors[(index % 3) + 1]

\* lines 528-580
title_card(section, color) ==
    [type |-> "box", layout |-> "vertical", backgroundColor |-> color.bg,
     cornerRadius |-> "lg", paddingAll |-> "16px",
     contents |-> <<
        [type |-> "box", layout |-> "horizontal",
         contents |-> <<
            [type |-> "text", text |-> section.number, size |-> "xl",
             weight |-> "bold", color |-> "#FFFFFF", flex |-> 1],
            [type |-> "box", layout |-> "vertical", flex |-> 5,
             contents |-> <<
                [type |-> "text", text |-> section.title, weight |-> "bold",
                 size |-> "lg", color |-> "#FFFFFF", wrap |-> TRUE],
                [type |-> "box", layout |-> "horizontal", margin |-> "sm",
                 contents |-> <<
                    [type |-> "text", text |-> section.stars, size |-> "md",
                     color |-> "#FFFFFF", flex |-> 3],
                    [type |-> "text", text |-> section.score, size |-> "md",
                     weight |-> "bold", color |-> "#FFFFFF", align |-> "end",
                     flex |-> 2] >>] >>] >>] >>]

\* lines 588-597
ContentTexts(section) ==
    [k \in 1..Len(section.content) |->
        [type |-> "text", text |-> section.content[k], size |-> "sm",
         color |-> "#374151", wrap |-> TRUE, margin |-> "sm"]]

\* lines 604-621
stats_box(section) ==
    [type |-> "box", layout |-> "vertical", backgroundColor |-> "#ffffff",
     cornerRadius |-> "md", paddingAll |-> "12px", margin |-> "sm",
     contents |-> [k \in 1..Len(section.stats) |->
        [type |-> "text", text |-> section.stats[k], size |-> "sm",
         color |-> "#6b7280", margin |-> "xs"]]]

\* lines 585-623
content_items(section) ==
    ContentTexts(section)
    \o (IF section.stats # <<>>
        THEN (IF ContentTexts(section) # <<>> THEN <<FlexSeparator("md")>> ELSE <<>>)
             \o <<stats_box(section)>>
        ELSE <<>>)

content_card(section, color) ==
    [type |-> "box", layout |-> "vertical", backgroundColor |-> color.light,
     cornerRadius |-> "md", paddingAll |-> "16px", margin |-> "sm",
     contents |-> content_items(section)]

\* the list returned for the section at position index (from 0)
create_modern_section(section, index) ==
    <<title_card(section, SectionColor(index))>>
    \o (IF (section.content # <<>> \/ section.stats # <<>>)
           /\ content_items(section) # <<>>
        THEN <<content_card(section, SectionColor(index))>>
        ELSE <<>>)

RECURSIVE BodySections(_, _)
\* the loop of lines 454-458 from position i (from 1) on
BodySections(sections, i) ==
    IF i > Len(sections) THEN <<>>
    ELSE (IF i - 1 > 0 THEN <<FlexSeparator("lg")>> ELSE <<>>)
         \o create_modern_section(sections[i], i - 1)
         \o BodySections(sections, i + 1)

create_body(d) ==
    [type |-> "box", layout |-> "vertical", paddingAll |-> "20px",
     backgroundColor |-> "#f8f9ff", spacing |-> "md",
     contents |-> BodySections(d.sections, 1)
                  \o (IF d.ai_advice # <<>>
                      THEN <<FlexSeparator("xl"), create_ai_advice_box(d.ai_advice)>>
                      ELSE <<>>)]

create_learning_report_flex(m) ==
    [type |-> "bubble", size |-> "giga", direction |-> "ltr",
     header |-> create_header,
     body |-> create_body(parse_learning_data(split(m)))]

(***************************************************************************)
(* The report pipeline as a state machine.  A request is either the text   *)
(* event "test" (handle_message, lines 291-307) or a POST to /unity_notify *)
(* whose JSON has the key totalTime (lines 269-270).                       *)
(***************************************************************************)
NoData == [totalQuestions |-> [kind |-> "absent"]]
NoReply == [kind |-> "empty"]
NoParse == [sections |-> <<>>, ai_advice |-> <<>>, motivation |-> <<>>]
NoBubble == [type |-> "none"]

\* unity_notify when no request is being served; n counts the requests served
NoBroadcast(n) ==
    [pc |-> "idle", n |-> n, source |-> "", message |-> <<>>, user_ids |-> <<>>,
     listed |-> FALSE, known |-> {}, idx |-> 1, success_count |-> 0,
     result |-> [status |-> ""]]

MaxReplyLen == 3
MaxLines == 4

RECURSIVE SeqsUpTo(_, _)
\* the sequences over S of length at most n
SeqsUpTo(S, n) ==
    IF n = 0 THEN {<<>>}
    ELSE LET shorter == SeqsUpTo(S, n - 1)
         IN  shorter \cup {Append(s, c) : s \in shorter, c \in S}

\* code points of a Gemini response: a letter, a blank, a line feed, the
\* ordinal glyph of section 1
ReplyAlphabet == {"a", " ", LF, SECTION_1[1]}

ReplyTexts ==
    SeqsUpTo(ReplyAlphabet, MaxReplyLen)
    \cup { <<"a">> \o ERROR_WORD,
           <<"a", " ">> \o AI_ADVICE_MARKER \o <<"b">>,
           <<"a", LF>> \o STAT_CHECK \o <<"b">> }

Replies ==
    {[kind |-> "raise"], [kind |-> "empty"]}
    \cup {[kind |-> "text", text |-> t] : t \in ReplyTexts}

SomeReplies ==
    {[kind |-> "raise"], [kind |-> "text", text |-> <<"a", " ", "a">>]}

\* samples of what generate_fake_data draws (lines 154-162), in tenths
FakeSessions ==
    [totalTime : {6000, 27155},
     attitudeScore : {455, 600, 850},
     effectivenessScore : {450, 500, 700, 920},
     concentrationScore : {350, 900},
     correctCount : {3, 10},
     wrongCount : {2},
     unansweredCount : {0, 2, 5},
     totalQuestions : {[kind |-> "callable"]},
     avgAnswerTime : {100, 300, 450}]

\* samples of the JSON a client posts: any numbers, the key totalQuestions
\* holding a number of its own or missing
PostedSessions ==
    [totalTime : {18000},
     attitudeScore : {0, 599, 1000},
     effectivenessScore : {699, 700},
     concentrationScore : {500},
     correctCount : {0, 7},
     wrongCount : {0},
     unansweredCount : {0, 3},
     totalQuestions : {[kind |-> "absent"], [kind |-> "int", val |-> 0],
                       [kind |-> "int", val |-> 10], [kind |-> "int", val |-> 20]},
     avgAnswerTime : {300, 301}]

FewSessions ==
    {d \in FakeSessions :
        /\ d.totalTime = 6000 /\ d.attitudeScore = 850 /\ d.effectivenessScore = 920
        /\ d.concentrationScore = 900 /\ d.correctCount = 10
        /\ d.avgAnswerTime = 100}

InitReport ==
    /\ \/ /\ pc = "test"
          /\ \/ data \in FakeSessions /\ reply \in SomeReplies
             \/ data \in FewSessions /\ reply \in Replies
       \/ /\ pc = "unity"
          /\ data \in PostedSessions
          /\ reply \in SomeReplies
    /\ message = <<>>
    /\ parsed = NoParse
    /\ bubble = NoBubble
    /\ score = 0 /\ stars = <<>>
    /\ Users = {} /\ events = <<>> /\ clock = 0 /\ handled = {}
    /\ bc = NoBroadcast(0) /\ pushes = <<>>

\* handle_message, lines 291-293: the text is "test"
HandleTestMessage ==
    /\ pc = "test"
    /\ LET res == generate_learning_message(data, reply)
       IN  /\ data' = res.data
           /\ message' = res.message
           /\ pc' = "composed"
    /\ UNCHANGED <<reply, parsed, bubble>>
    /\ UNCHANGED starVars
    /\ UNCHANGED svcVars

\* unity_notify, lines 267-270: the JSON has the key totalTime
UnityNotifyReport ==
    /\ pc = "unity"
    /\ LET res == generate_learning_message(data, reply)
       IN  /\ data' = res.data
           /\ message' = res.message
           /\ pc' = IF res.raised THEN "error500" ELSE "composed"
    /\ UNCHANGED <<reply, parsed, bubble>>
    /\ UNCHANGED starVars
    /\ UNCHANGED svcVars

\* create_learning_report_flex(message), lines 340-351
CreateLearningReportFlex ==
    /\ pc = "composed"
    /\ parsed' = parse_learning_data(split(message))
    /\ bubble' = create_learning_report_flex(message)
    /\ pc' = "rendered"
    /\ UNCHANGED <<data, reply, message>>
    /\ UNCHANGED starVars
    /\ UNCHANGED svcVars

NextReport == HandleTestMessage \/ UnityNotifyReport \/ CreateLearningReportFlex

SpecReport == InitReport /\ [][NextReport]_vars

(***************************************************************************)
(* create_learning_report_flex on any text: the "message" posted to        *)
(* /unity_notify is the client's, and send_message_to_user hands it to the *)
(* parser as soon as it holds a keyword.                                   *)
(***************************************************************************)
LineKinds ==
    { SECTION_1 \o <<"A">> \o FILLED_STAR \o EMPTY_STAR \o <<" ", "(", "7", ")">>,
      SECTION_2,
      <<" ">> \o SECTION_3 \o <<"B">>,
      STAT_CHECK \o <<"x">>,
      STAT_PAUSE \o <<"p">>,
      AI_ADVICE_MARKER \o <<" ", "a">>,
      ROCKET \o <<"m">>,
      <<"c">>,
      <<" ">> }

RECURSIVE Join(_, _)
\* '\n'.join(lines[i:]), i counted from 1
Join(lines, i) ==
    IF i > Len(lines) THEN <<>>
    ELSE IF i = Len(lines) THEN lines[i]
    ELSE lines[i] \o <<LF>> \o Join(lines, i + 1)

Texts == {Join(ls, 1) : ls \in SeqsUpTo(LineKinds, MaxLines)}

InitParse ==
    /\ pc = "composed"
    /\ message \in Texts
    /\ data = NoData
    /\ reply = NoReply
    /\ parsed = NoParse
    /\ bubble = NoBubble
    /\ score = 0 /\ stars = <<>>
    /\ Users = {} /\ events = <<>> /\ clock = 0 /\ handled = {}
    /\ bc = NoBroadcast(0) /\ pushes = <<>>

NextParse == CreateLearningReportFlex

SpecParse == InitParse /\ [][NextParse]_vars

(***************************************************************************)
(* get_star_rating on every score from 0.0 to 100.0.                       *)
(***************************************************************************)
MaxScore == 1000

InitStars ==
    /\ score \in 0..MaxScore
    /\ stars = <<>>
    /\ pc = "stars"
    /\ data = NoData
    /\ reply = NoReply
    /\ message = <<>>
    /\ parsed = NoParse
    /\ bubble = NoBubble
    /\ Users = {} /\ events = <<>> /\ clock = 0 /\ handled = {}
    /\ bc = NoBroadcast(0) /\ pushes = <<>>

StarRating ==
    /\ pc = "stars"
    /\ stars' = get_star_rating(score)
    /\ pc' = "rated"
    /\ UNCHANGED score
    /\ UNCHANGED <<data, reply, message, parsed, bubble>>
    /\ UNCHANGED svcVars

NextStars == StarRating

SpecStars == InitStars /\ [][NextStars]_vars

(***************************************************************************)
(* Properties of the report pipeline.                                      *)
(***************************************************************************)

\* C1: parsing the text composed from any session and any advice yields exactly
\* 3 sections, each with a star string of exactly 5 glyphs, and ai_advice equal
\* to the advice trimmed.
C1_RoundTrip ==
    pc = "rendered" /\ data.totalQuestions.kind = "int" =>
        /\ Len(parsed.sections) = 3
        /\ \A i \in 1..Len(parsed.sections) : Len(parsed.sections[i].stars) = 5
        /\ parsed.ai_advice = strip(get_ai_advice(reply))

\* C2: the totalQuestions value the composer uses is the sum of the three
\* counts, on the 'test' path and on the /unity_notify path.
C2_TotalQuestionsIsSum ==
    pc \in {"composed", "rendered"} /\ data.totalQuestions.kind = "int" =>
        data.totalQuestions.val
            = data.correctCount + data.wrongCount + data.unansweredCount

\* the integer nearest to n / d, a tie going up
RoundHalfUp(n, d) == (2 * n + d) \div (2 * d)

\* C3: get_star_rating emits clamp(round(s/20), 1, 5) filled glyphs followed by
\* the empty glyphs that make 5, for every score s in [0, 100].
C3_StarRating ==
    pc = "rated" =>
        LET filled == max(1, min(5, RoundHalfUp(score, 200)))
        IN  /\ Len(stars) = 5
            /\ filled >= 1
            /\ \A i \in 1..Len(stars) :
                 stars[i] = IF i <= filled THEN FILLED_STAR[1] ELSE EMPTY_STAR[1]

\* the line of a literal that ends with a line feed
LineOf(lit) == SubSeq(lit, 1, Len(lit) - 1)

AdviceHeaderAt(lines) ==
    CHOOSE k \in 1..Len(lines) :
        /\ lines[k] = LineOf(ADVICE_HEADER)
        /\ \A j \in 1..(k - 1) : lines[j] # LineOf(ADVICE_HEADER)

\* C4: the composer appends exactly one personalized-advice line, chosen by the
\* first condition that holds: unanswered > 30% of the total -> time management;
\* attitude < 60 and effectiveness < 70 -> focus; effectiveness < 70 -> review;
\* avgAnswerTime > 30 -> speed practice; otherwise the generic encouragement.
C4_PersonalAdvicePriority ==
    pc \in {"composed", "rendered"} /\ data.totalQuestions.kind = "int" =>
        LET lines == split(message)
            k == AdviceHeaderAt(lines)
            tip == lines[k + 1]
            late == 10 * data.unansweredCount > 3 * data.totalQuestions.val
            unfocused == data.attitudeScore < 600 /\ data.effectivenessScore < 700
            weak == data.effectivenessScore < 700
            slow == data.avgAnswerTime > 300
        IN  /\ lines[k + 2] = <<>>
            /\ StartsWith(lines[k + 3], ROCKET)
            /\ late => tip = LineOf(TIP_TIME)
            /\ ~late /\ unfocused => tip = LineOf(TIP_FOCUS)
            /\ ~late /\ ~unfocused /\ weak => tip = LineOf(TIP_REVIEW)
            /\ ~late /\ ~weak /\ slow => tip = LineOf(TIP_SPEED)
            /\ ~late /\ ~weak /\ ~slow => tip = LineOf(TIP_GENERIC)

\* many unanswered questions in a session whose scores also call for the focus tip
C4_Witness ==
    /\ pc = "composed"
    /\ data.totalQuestions.kind = "int"
    /\ 10 * data.unansweredCount > 3 * data.totalQuestions.val
    /\ data.attitudeScore < 600 /\ data.effectivenessScore < 700
    /\ data.avgAnswerTime > 300
    /\ Contains(message, TIP_TIME)

(***************************************************************************)
(* Properties of the parser and the renderer on any text.                  *)
(***************************************************************************)
InputLines == split(message)

\* lines without the one at position k
RemoveAt(lines, k) == SubSeq(lines, 1, k - 1) \o SubSeq(lines, k + 1, Len(lines))

\* no section has been opened when the line at position k is read
NoSectionOpenAt(lines, k) == \A j \in 1..(k - 1) : ~IsSectionLine(strip(lines[j]))

IsAdviceLine(line) == StartsWith(line, AI_ADVICE_MARKER)

\* C5 as stated: a line that begins with a stat marker or with the AI-advice
\* marker, read while no section is open, changes no field of the result.
C5_MarkerLineDropped ==
    pc = "rendered" =>
        \A k \in 1..Len(InputLines) :
            /\ NoSectionOpenAt(InputLines, k)
            /\ IsStatLine(strip(InputLines[k])) \/ IsAdviceLine(strip(InputLines[k]))
            => parsed = parse_learning_data(RemoveAt(InputLines, k))

\* C5 amended: a stat-marker line read while no section is open changes no
\* field of the result; an AI-advice line read while no section is open is not
\* dropped: it sets ai_advice (the last such line wins).
C5_StatLineDropped ==
    pc = "rendered" =>
        \A k \in 1..Len(InputLines) :
            NoSectionOpenAt(InputLines, k) =>
                /\ IsStatLine(strip(InputLines[k])) =>
                       parsed = parse_learning_data(RemoveAt(InputLines, k))
                /\ /\ IsAdviceLine(strip(InputLines[k]))
                   /\ \A j \in (k + 1)..Len(InputLines) :
                         ~IsAdviceLine(strip(InputLines[j]))
                   => parsed.ai_advice
                          = strip(replace(strip(InputLines[k]), AI_ADVICE_MARKER))

\* a stat line and an advice line are read before the first section line
C5_Witness ==
    /\ pc = "rendered"
    /\ Len(InputLines) >= 3
    /\ IsStatLine(strip(InputLines[1]))
    /\ IsAdviceLine(strip(InputLines[2]))
    /\ Len(parsed.sections) >= 1
    /\ parsed.ai_advice # <<>>

\* the non-blank lines that begin with an ordinal glyph, in input order
RECURSIVE MarkerLines(_, _)
MarkerLines(lines, i) ==
    IF i > Len(lines) THEN <<>>
    ELSE (IF IsSectionLine(strip(lines[i])) THEN <<strip(lines[i])>> ELSE <<>>)
         \o MarkerLines(lines, i + 1)

\* C6: parse_learning_data returns exactly one section per non-blank line that
\* begins with an ordinal glyph, in input order; the last open one is flushed.
C6_OneSectionPerMarker ==
    pc = "rendered" =>
        LET marks == MarkerLines(InputLines, 1)
        IN  /\ Len(parsed.sections) = Len(marks)
            /\ \A i \in 1..Len(marks) :
                 IF parsed.sections[i].number # <<>>
                 THEN parsed.sections[i].number = SubSeq(marks[i], 1, 1)
                 ELSE parsed.sections[i].title = marks[i]

\* a text with exactly two section markers among other lines
C6_Witness ==
    /\ pc = "rendered"
    /\ Len(InputLines) = 4
    /\ Len(parsed.sections) = 2
    /\ parsed.sections[1].number # parsed.sections[2].number

\* a child of the body, as its kind and its background
ChildShape(c) ==
    IF c.type = "box" THEN <<"box", c.backgroundColor>> ELSE <<c.type, "">>

RECURSIVE ExpectedChildren(_, _)
ExpectedChildren(sections, i) ==
    IF i > Len(sections) THEN <<>>
    ELSE (IF i > 1 THEN << <<"separator", "">> >> ELSE <<>>)
         \o << <<"box", colors[((i - 1) % 3) + 1].bg>> >>
         \o (IF sections[i].content # <<>> \/ sections[i].stats # <<>>
             THEN << <<"box", colors[((i - 1) % 3) + 1].light>> >>
             ELSE <<>>)
         \o ExpectedChildren(sections, i + 1)

\* C7: the children of the body are, in order and with nothing else: for each
\* section at position i a separator iff i > 0, a title card with background
\* palette[i mod 3].bg, a content card with background palette[i mod 3].light
\* iff the section has a content or stat line; then a separator and the dark
\* advice card iff ai_advice is non-empty.
C7_BodyChildren ==
    pc = "rendered" =>
        LET kids == bubble.body.contents
        IN  [k \in 1..Len(kids) |-> ChildShape(kids[k])]
              = ExpectedChildren(parsed.sections, 1)
                \o (IF parsed.ai_advice # <<>>
                    THEN << <<"separator", "">>, <<"box", "#1e293b">> >>
                    ELSE <<>>)

\* four sections: the palette wraps around
C7_Witness ==
    /\ pc = "rendered"
    /\ Len(parsed.sections) = 4
    /\ Len(bubble.body.contents) = 7

(***************************************************************************)
(* The service: webhook events handled by the threads of the server, the   *)
(* Firestore collection 'Users', and the broadcast run by unity_notify.    *)
(***************************************************************************)
MaxEvents == 2
MaxBroadcasts == 1

UserIds == {"Ua", "Ub"}

\* a handler thread: where it is in record_user_id, for which user, the time it
\* started, and what user_doc.exists told it
Idle == [pc |-> "idle", user |-> "", at |-> 0, exists |-> FALSE]

\* a store that adds a document at every set() instead of replacing the one
\* of that id
DocumentSet_Add(U, doc) == U \cup {doc}

\* db.collection('Users').document(id).set(doc): the document of that id is
\* created or replaced
DocumentSet(U, doc) == {d \in U : d.id # doc.id} \cup {doc}

\* db.collection('Users').document(id).update({"last_active": at})
DocumentUpdate(U, id, at) ==
    {IF d.id = id THEN [d EXCEPT !.last_active = at] ELSE d : d \in U}

\* [doc.id for doc in users_ref.stream()], as a set
DocumentIds(U) == {d.id : d \in U}

\* the sequences that list every element of S once
Orderings(S) ==
    {f \in [1..Cardinality(S) -> S] : \A i, j \in 1..Cardinality(S) : f[i] = f[j] => i = j}

\* a test that knows only the first keyword
IsLearningReport_FirstKeyword(m) == Contains(m, KEYWORD_REPORT)

\* line 116
IsLearningReport(m) ==
    \/ Contains(m, KEYWORD_REPORT)
    \/ Contains(m, KEYWORD_ATTITUDE)
    \/ Contains(m, KEYWORD_EFFECTIVENESS)
    \/ Contains(m, KEYWORD_CONCENTRATION)

\* send_message_to_user(user_id, message); fault is what the SDK does on this
\* call: "none", "build" (building the message fails) or "push" (push_message
\* raises).  The result is the attempt made and the value returned.
send_message_to_user(user_id, m, fault) ==
    [to |-> user_id,
     form |-> IF IsLearningReport(m) THEN "flex" ELSE "text",
     fault |-> fault,
     raised |-> FALSE,
     ok |-> (fault = "none")]

\* a loop that stops at the first failed delivery
AfterSend_StopOnFailure(b, ok) ==
    [b EXCEPT !.idx = IF ok THEN @ + 1 ELSE Len(b.user_ids) + 1,
              !.success_count = IF ok THEN @ + 1 ELSE @]

\* lines 143-145: the loop variable and the counter after one delivery
AfterSend(b, ok) ==
    [b EXCEPT !.idx = @ + 1,
              !.success_count = IF ok THEN @ + 1 ELSE @]

\* the "message" values posted to /unity_notify
PostedMessages ==
    { <<"h", "i">>,
      SubSeq(KEYWORD_ATTITUDE, 1, 3),
      <<"x">> \o KEYWORD_CONCENTRATION \o <<"!">> }

\* the sessions posted to /unity_notify
ServicePostedSessions ==
    {d \in PostedSessions :
        /\ d.attitudeScore = 599 /\ d.effectivenessScore = 700
        /\ d.correctCount = 7 /\ d.unansweredCount = 3 /\ d.avgAnswerTime = 300
        /\ d.totalQuestions \in {[kind |-> "absent"], [kind |-> "int", val |-> 10]}}

Init ==
    /\ Users = {}
    /\ events = <<>>
    /\ clock = 0
    /\ handled = {}
    /\ bc = NoBroadcast(0)
    /\ pushes = <<>>
    /\ pc = "service"
    /\ data = NoData
    /\ reply = NoReply
    /\ message = <<>>
    /\ parsed = NoParse
    /\ bubble = NoBubble
    /\ score = 0 /\ stars = <<>>

Quiet == /\ UNCHANGED pipeVars
         /\ UNCHANGED starVars

\* the webhook dispatches a MessageEvent to handle_message on a thread of its
\* own: the event is the next entry of events
ReceiveMessage(u) ==
    /\ clock < MaxEvents
    /\ clock' = clock + 1
    /\ events' = Append(events,
           [Idle EXCEPT !.pc = "get", !.user = u, !.at = clock + 1])
    /\ UNCHANGED <<Users, handled, bc, pushes>>
    /\ Quiet

\* the webhook dispatches a FollowEvent to handle_follow
ReceiveFollow(u) ==
    /\ clock < MaxEvents
    /\ clock' = clock + 1
    /\ events' = Append(events,
           [Idle EXCEPT !.pc = "get", !.user = u, !.at = clock + 1])
    /\ UNCHANGED <<Users, handled, bc, pushes>>
    /\ Quiet

\* record_user_id, lines 76-77: user_ref.get(); a store that fails raises and
\* the except clause of line 95 ends the call
RecordGet(t) ==
    /\ events[t].pc = "get"
    /\ \E storeOk \in BOOLEAN :
         events' = [events EXCEPT ![t] =
            IF storeOk
            THEN [@ EXCEPT !.pc = "write", !.exists = (events[t].user \in DocumentIds(Users))]
            ELSE [@ EXCEPT !.pc = "recorded"]]
    /\ UNCHANGED <<Users, clock, handled, bc, pushes>>
    /\ Quiet

\* record_user_id, lines 79-93: set() of a new document or update() of
\* last_active
RecordWrite(t) ==
    /\ events[t].pc = "write"
    /\ LET e == events[t]
       IN  \E storeOk \in BOOLEAN :
             /\ Users' =
                  IF ~storeOk THEN Users
                  ELSE IF ~e.exists
                  THEN DocumentSet(Users, [id |-> e.user, user_id |-> e.user,
                                           created_at |-> e.at, last_active |-> e.at])
                  ELSE DocumentUpdate(Users, e.user, e.at)
             /\ handled' = IF storeOk THEN handled \cup {e.user} ELSE handled
    /\ events' = [events EXCEPT ![t].pc = "recorded"]
    /\ UNCHANGED <<clock, bc, pushes>>
    /\ Quiet

\* the rest of the handler touches nothing of the service: handle_message logs
\* the text and, for "test", replies on the reply token (HandleTestMessage and
\* CreateLearningReportFlex above; a failed reply is logged, line 309);
\* handle_follow logs
FinishEvent(t) ==
    /\ events[t].pc = "recorded"
    /\ events' = [events EXCEPT ![t] = Idle]
    /\ UNCHANGED <<Users, clock, handled, bc, pushes>>
    /\ Quiet

\* unity_notify, lines 267-272, for a JSON with the key totalTime
UnityNotifySession(d, r) ==
    /\ bc.pc = "idle"
    /\ bc.n < MaxBroadcasts
    /\ LET res == generate_learning_message(d, r)
       IN  bc' = IF res.raised
                 THEN [NoBroadcast(bc.n + 1) EXCEPT !.pc = "error500"]
                 ELSE [NoBroadcast(bc.n + 1) EXCEPT !.pc = "list", !.source = "report",
                                                    !.message = res.message,
                                                    !.known = handled]
    /\ UNCHANGED <<Users, events, clock, handled, pushes>>
    /\ Quiet

\* unity_notify for a JSON without the key totalTime: hasMessage tells whether
\* it has the key message
UnityNotifyMessage(hasMessage, m) ==
    /\ bc.pc = "idle"
    /\ bc.n < MaxBroadcasts
    /\ bc' = [NoBroadcast(bc.n + 1) EXCEPT
                !.pc = "list", !.source = "message",
                !.message = IF hasMessage THEN m ELSE DEFAULT_MESSAGE,
                !.known = handled]
    /\ UNCHANGED <<Users, events, clock, handled, pushes>>
    /\ Quiet

\* broadcast_message, lines 138-142: get_all_user_ids returns the ids in the
\* order of the store, or [] when the store fails
ListUsers ==
    /\ bc.pc = "list"
    /\ \E storeOk \in BOOLEAN :
         \E ids \in (IF storeOk THEN Orderings(DocumentIds(Users)) ELSE {<<>>}) :
            bc' = IF ids = <<>>
                  THEN [bc EXCEPT !.pc = "done", !.listed = storeOk,
                                  !.result = [status |-> "no_users", user_count |-> 0]]
                  ELSE [bc EXCEPT !.pc = "send", !.listed = storeOk, !.user_ids = ids]
    /\ UNCHANGED <<Users, events, clock, handled, pushes>>
    /\ Quiet

\* one iteration of the loop of lines 143-145
SendMessageToUser ==
    /\ bc.pc = "send"
    /\ bc.idx <= Len(bc.user_ids)
    /\ \E fault \in {"none", "build", "push"} :
         LET sent == send_message_to_user(bc.user_ids[bc.idx], bc.message, fault)
         IN  /\ pushes' = Append(pushes, sent)
             /\ bc' = AfterSend(bc, sent.ok)
    /\ UNCHANGED <<Users, events, clock, handled>>
    /\ Quiet

\* line 147
BroadcastReturn ==
    /\ bc.pc = "send"
    /\ bc.idx > Len(bc.user_ids)
    /\ bc' = [bc EXCEPT !.pc = "done",
                        !.result = [status |-> "ok", user_count |-> Len(bc.user_ids),
                                    success_count |-> bc.success_count]]
    /\ UNCHANGED <<Users, events, clock, handled, pushes>>
    /\ Quiet

\* line 275: the response is sent (or the 500 of an unhandled exception)
UnityNotifyReturn ==
    /\ bc.pc \in {"done", "error500"}
    /\ bc' = NoBroadcast(bc.n)
    /\ pushes' = <<>>
    /\ UNCHANGED <<Users, events, clock, handled>>
    /\ Quiet

Next ==
    \/ \E u \in UserIds : ReceiveMessage(u)
    \/ \E u \in UserIds : ReceiveFollow(u)
    \/ \E t \in DOMAIN events : RecordGet(t)
    \/ \E t \in DOMAIN events : RecordWrite(t)
    \/ \E t \in DOMAIN events : FinishEvent(t)
    \/ \E d \in ServicePostedSessions : UnityNotifySession(d, [kind |-> "raise"])
    \/ \E hasMessage \in BOOLEAN, m \in PostedMessages : UnityNotifyMessage(hasMessage, m)
    \/ ListUsers
    \/ SendMessageToUser
    \/ BroadcastReturn
    \/ UnityNotifyReturn

Spec == Init /\ [][Next]_vars

(***************************************************************************)
(* Properties of the service.                                              *)
(***************************************************************************)
PushTargets == [k \in 1..Len(pushes) |-> pushes[k].to]

Successes == Cardinality({k \in 1..Len(pushes) : pushes[k].ok})

\* C8: broadcast_message attempts delivery to every listed user id exactly once,
\* one after another, whatever the earlier deliveries returned; the result
\* reports user_count = number of users listed and success_count = number of
\* deliveries that succeeded; with no user listed it reports no_users, 0 users,
\* and attempts nothing.
C8_BroadcastFanOut ==
    /\ bc.pc = "send" =>
          /\ Len(pushes) = bc.idx - 1
          /\ PushTargets = SubSeq(bc.user_ids, 1, Len(pushes))
          /\ bc.success_count = Successes
    /\ bc.pc = "done" =>
          /\ PushTargets = bc.user_ids
          /\ \A i, j \in 1..Len(pushes) : pushes[i].to = pushes[j].to => i = j
          /\ IF bc.user_ids = <<>>
             THEN bc.result = [status |-> "no_users", user_count |-> 0]
             ELSE /\ bc.result.status = "ok"
                  /\ bc.result.user_count = Len(bc.user_ids)
                  /\ bc.result.success_count = Successes
                  /\ 0 <= bc.result.success_count
                  /\ bc.result.success_count <= bc.result.user_count

\* a broadcast to two users whose first delivery failed and second succeeded
C8_Witness ==
    /\ bc.pc = "done"
    /\ Len(bc.user_ids) = 2
    /\ Len(pushes) = 2
    /\ ~pushes[1].ok
    /\ pushes[2].ok
    /\ bc.result.success_count = 1

RecordsOf(u) == {d \in Users : d.user_id = u}

\* C9: once an event of user u has been handled with the store working, the
\* store holds exactly one record for u, however many events u and others send
\* and however they interleave, and every broadcast that starts later and lists
\* the users attempts a delivery to u.
C9_KnownUser ==
    /\ \A u \in UserIds : Cardinality(RecordsOf(u)) <= 1
    /\ \A u \in handled : Cardinality(RecordsOf(u)) = 1
    /\ bc.pc = "done" /\ bc.listed =>
          \A u \in bc.known : \E k \in 1..Len(pushes) : pushes[k].to = u

\* a user who sent two events and was known before the broadcast that ended
C9_Witness ==
    /\ bc.pc = "done"
    /\ bc.listed
    /\ \E d \in Users : d.user_id \in bc.known /\ d.last_active > d.created_at
    /\ Len(pushes) >= 1

Keywords ==
    {KEYWORD_REPORT, KEYWORD_ATTITUDE, KEYWORD_EFFECTIVENESS, KEYWORD_CONCENTRATION}

HasKeyword(m) ==
    \E kw \in Keywords : \E i \in 1..Len(m) :
        /\ m[i] = kw[1]
        /\ i + Len(kw) - 1 <= Len(m)
        /\ SubSeq(m, i, i + Len(kw) - 1) = kw

\* C10: send_message_to_user sends a rich card iff the text contains one of the
\* four keywords and plain text otherwise; every text of the composer goes out
\* as a rich card; a failure while building or pushing is returned as False.
C10_CardIffKeyword ==
    \A k \in 1..Len(pushes) :
        /\ pushes[k].form = "flex" <=> HasKeyword(bc.message)
        /\ pushes[k].form = "text" <=> ~HasKeyword(bc.message)
        /\ bc.source = "report" => pushes[k].form = "flex"
        /\ ~pushes[k].raised
        /\ pushes[k].ok <=> pushes[k].fault = "none"

\* a composed report whose card could not be built for the first user and a
\* delivery that went through for the second
C10_Witness ==
    /\ bc.source = "report"
    /\ Len(pushes) = 2
    /\ pushes[1].form = "flex" /\ pushes[1].fault = "build" /\ ~pushes[1].ok
    /\ pushes[2].form = "flex" /\ pushes[2].ok

(***************************************************************************)
(* Properties of the lines a section collects.                             *)
(***************************************************************************)
RECURSIVE MarkerIndexes(_, _)
\* the positions of the lines that begin with an ordinal glyph, in input order
MarkerIndexes(lines, i) ==
    IF i > Len(lines) THEN <<>>
    ELSE (IF IsSectionLine(strip(lines[i])) THEN <<i>> ELSE <<>>)
         \o MarkerIndexes(lines, i + 1)

StatGlyphs == {STAT_ALARM, STAT_CHECK, STAT_CROSS, STAT_PAUSE, STAT_CLOCK}

BeginsWithStatGlyph(line) ==
    \E g \in StatGlyphs : Len(line) >= Len(g) /\ SubSeq(line, 1, Len(g)) = g

\* a line that a section keeps: not blank, not the advice line, not the
\* motivation line
IsSectionBodyLine(line) ==
    /\ line # <<>>
    /\ ~IsAdviceLine(line)
    /\ ~StartsWith(line, ROCKET)

RECURSIVE BodyLines(_, _, _, _)
\* the trimmed lines at positions from..to that a section keeps and that begin
\* (stat = TRUE) or do not begin (stat = FALSE) with a stat glyph, in order
BodyLines(lines, from, to, stat) ==
    IF from > to THEN <<>>
    ELSE (IF /\ IsSectionBodyLine(strip(lines[from]))
             /\ BeginsWithStatGlyph(strip(lines[from])) = stat
          THEN <<strip(lines[from])>> ELSE <<>>)
         \o BodyLines(lines, from + 1, to, stat)

\* C11: while a section is open, every non-blank line that is not a
\* section-marker, advice or motivation line is appended to exactly one list of
\* the open section: its stat lines iff it begins with one of the 5 stat glyphs,
\* otherwise its content lines; no line is lost, duplicated or attached to
\* another section, and each list keeps the input order.
C11_LinesOfOpenSection ==
    pc = "rendered" =>
        LET at == MarkerIndexes(InputLines, 1)
        IN  /\ Len(parsed.sections) = Len(at)
            /\ \A i \in 1..Len(at) :
                 LET to == IF i < Len(at) THEN at[i + 1] - 1 ELSE Len(InputLines)
                 IN  /\ parsed.sections[i].stats
                          = BodyLines(InputLines, at[i] + 1, to, TRUE)
                     /\ parsed.sections[i].content
                          = BodyLines(InputLines, at[i] + 1, to, FALSE)

\* a section that took a content line and a pause-glyph stat line before the
\* next section opened
C11_Witness ==
    /\ pc = "rendered"
    /\ Len(parsed.sections) = 2
    /\ Len(parsed.sections[1].content) = 1
    /\ parsed.sections[1].stats = <<STAT_PAUSE \o <<"p">>>>
    /\ parsed.sections[2].content = <<>>
    /\ parsed.sections[2].stats = <<>>

(***************************************************************************)
(* The third section of a composed report.                                 *)
(***************************************************************************)
\* C12: in the parse of every composed report the third section holds only its
\* own lines: its stat lines are exactly the average-answer-time line and its
\* content lines are exactly its one remark.
C12_ThirdSectionOwnLines ==
    (pc = "rendered" /\ Len(parsed.sections) >= 3) =>
        /\ parsed.sections[3].stats
             = << AVG_TIME_LABEL \o Format1f(data.avgAnswerTime)
                    \o LineOf(LineOf(SECONDS_SUFFIX)) >>
        /\ parsed.sections[3].content = << LineOf(SpeedRemark(data)) >>
=============================================================================
